---- MODULE Spec2Model ----
(***************************************************************************)
(* A model of utils/dataset.py (class BRCDataset): the record loader with  *)
(* its bad-case sink, the id conversion pass, and the mini-batch assembler *)
(* with dynamic padding and answer-span remapping.                         *)
(***************************************************************************)
EXTENDS Integers, Sequences, FiniteSets, TLC

\* ------------------------------------------------------------------ bounds
MaxRecords == 2      \* records in the file behind the three partitions
MaxBatchSize == 2    \* batch_size argument of gen_mini_batches, records of one batch
MaxLines == 2        \* lines of one input file
MaxFiles == 2        \* files handed to the constructor, all lists together
MaxLabels == 3       \* answer labels of a record in an input file

\* the shapes of the records that are batched
DocCounts == 0..2     \* documents of one record
PassageLens == 1..2   \* tokens of one passage, of one question
AnswerCounts == 0..2  \* answers of one record

\* ------------------------------------------------------- Python primitives
Min(a, b) == IF a <= b THEN a ELSE b

\* max(list): defined for a non-empty list only (ValueError otherwise)
PyMax(s) == CHOOSE m \in {s[i] : i \in 1..Len(s)} : \A i \in 1..Len(s) : s[i] <= m

\* [x] * n: the empty list when n <= 0
PyRepeat(x, n) == [i \in 1..(IF n > 0 THEN n ELSE 0) |-> x]

\* s[:n]: the first n elements; for n < 0 all but the last -n
PySliceTo(s, n) ==
    IF n >= 0 THEN SubSeq(s, 1, Min(n, Len(s)))
    ELSE SubSeq(s, 1, IF Len(s) + n > 0 THEN Len(s) + n ELSE 0)

\* s[a : a + n] for a >= 0, n >= 1
PySlice(s, a, n) == SubSeq(s, Min(a, Len(s)) + 1, Min(a + n, Len(s)))

\* int(bool)
PyInt(b) == IF b THEN 1 ELSE 0

\* [f(x) for x in s] flattened one level: the concatenation of a list of lists
RECURSIVE Concat(_)
Concat(ss) == IF ss = <<>> THEN <<>> ELSE Head(ss) \o Concat(Tail(ss))


\* ------------------------------------------------------------------ records
\* One record as json.loads returns it.  ql: question length, lens: the
\* passage length of every document, labels: answer_labels, docs: the
\* best_match_doc_ids parallel to labels.  A key the record does not have
\* (the token ids before convert_to_ids, error_info before rejection) holds
\* Absent, resp. NoErrorInfo.  Absent is no list of vocabulary ids: those are
\* all positive.
Absent == <<-1>>
NoErrorInfo == "absent"

Document(d, len, selected) ==
    [segmented_passage |-> [j \in 1..len |-> 10 * d + j],
     pos_passage       |-> [j \in 1..len |-> (j + d) % 2],
     keyword_passage   |-> [j \in 1..len |-> j % 2],
     is_selected       |-> selected,
     passage_token_ids |-> Absent]

Sample(ql, lens, labels, docs) ==
    [question_id        |-> 0,
     segmented_question |-> [j \in 1..ql |-> j],
     pos_question       |-> [j \in 1..ql |-> j % 2],
     keyword_question   |-> [j \in 1..ql |-> (j + 1) % 2],
     documents          |-> [d \in 1..Len(lens) |->
                               Document(d, lens[d], \E a \in 1..Len(docs) : docs[a] = d - 1)],
     fake_answers       |-> [a \in 1..Len(labels) |-> 100 + a],
     answer_labels      |-> labels,
     best_match_doc_ids |-> docs,
     best_match_scores  |-> [a \in 1..Len(labels) |-> a],
     question_token_ids |-> Absent,
     error_info         |-> NoErrorInfo]

\* ------------------------------------------------------------ record loader
\* a variant of KeptAnswers that drops a label only when both ends are -1
KeptAnswersBothUnresolved(sample) ==
    SelectSeq([i \in 1..Len(sample.answer_labels) |-> i],
              LAMBDA i : ~(sample.answer_labels[i][1] = -1 /\ sample.answer_labels[i][2] = -1))

\* lines 77-84: the indices of answer_labels the loop keeps, in order
KeptAnswers(sample) ==
    SelectSeq([i \in 1..Len(sample.answer_labels) |-> i],
              LAMBDA i : ~(sample.answer_labels[i][1] = -1 \/ sample.answer_labels[i][2] = -1))

\* lines 61-93: the cleaning of one training sample; bad_case_sample and the
\* sample as the branch leaves it
CleanSample(sample) ==
    IF Len(sample.segmented_question) = 0 \/ Len(sample.documents) = 0
    THEN [bad_case_sample |-> TRUE, sample |-> [sample EXCEPT !.error_info = "empty_question"]]
    ELSE IF Len(sample.fake_answers) = 0
    THEN [bad_case_sample |-> TRUE, sample |-> [sample EXCEPT !.error_info = "empty_fake_answer"]]
    ELSE LET kept == KeptAnswers(sample)
             Pick(field) == [i \in 1..Len(kept) |-> field[kept[i]]]
         IN  IF Len(kept) = 0
             THEN [bad_case_sample |-> TRUE,
                   sample |-> [sample EXCEPT !.error_info = "empty_fake_answer"]]
             ELSE [bad_case_sample |-> FALSE,
                   sample |-> [sample EXCEPT !.best_match_doc_ids = Pick(sample.best_match_doc_ids),
                                             !.best_match_scores = Pick(sample.best_match_scores),
                                             !.answer_labels = Pick(sample.answer_labels),
                                             !.fake_answers = Pick(sample.fake_answers)]]

\* lines 53-100: the loop over the lines of one file.  A line is <<>> (no '{'
\* in it) or <<sample>>.  acc is the state of the call so far: data_set, the
\* samples written to the dumper, and the exception that ended it.
RECURSIVE LoadLines(_, _, _, _, _)
LoadLines(lines, train, log_file, dumper, acc) ==
    IF lines = <<>> THEN acc
    ELSE IF Head(lines) = <<>> THEN LoadLines(Tail(lines), train, log_file, dumper, acc)
    ELSE IF train /\ ~log_file THEN [acc EXCEPT !.raised = "AssertionError"]
    ELSE LET c == IF train THEN CleanSample(Head(lines)[1])
                  ELSE [bad_case_sample |-> FALSE, sample |-> Head(lines)[1]]
         IN  IF c.bad_case_sample
             THEN IF dumper # "open"
                  THEN [acc EXCEPT !.raised = "ValueError"]
                  ELSE LoadLines(Tail(lines), train, log_file, dumper,
                                 [acc EXCEPT !.written = Append(@, c.sample)])
             ELSE LoadLines(Tail(lines), train, log_file, dumper,
                            [acc EXCEPT !.data_set = Append(@, c.sample)])

\* lines 49-105: one call of _load_dataset; dumper is the state of
\* self.badcase_dumper on entry ("unset", "open" or "closed")
LoadDataset(lines, train, log_file, dumper) ==
    LET r == LoadLines(lines, train, log_file, dumper,
                       [data_set |-> <<>>, written |-> <<>>, raised |-> "none"])
    IN  [data_set |-> r.data_set,
         written  |-> r.written,
         raised   |-> r.raised,
         dumper   |-> IF r.raised = "none" /\ log_file THEN "closed" ELSE dumper]

\* --------------------------------------------------------- id conversion
\* vocab.convert_to_ids: the vocabulary adapter, total and deterministic
VocabConvertToIds(tokens) == [j \in 1..Len(tokens) |-> tokens[j] + 20]

\* lines 144-145: the documents of one sample
ConvertDocuments(docs) ==
    [d \in 1..Len(docs) |->
        [docs[d] EXCEPT !.passage_token_ids = VocabConvertToIds(docs[d].segmented_passage)]]

\* lines 142-145, for the samples of one partition
ConvertSet(data_set) ==
    [s \in 1..Len(data_set) |->
        [data_set[s] EXCEPT
            !.question_token_ids = VocabConvertToIds(data_set[s].segmented_question),
            !.documents = ConvertDocuments(data_set[s].documents)]]

\* ------------------------------------------------------------------- state
VARIABLES
    max_p_num, max_p_len, max_q_len,    \* self.max_p_num, self.max_p_len, self.max_q_len
    badcase_sample_log_file,            \* TRUE iff a bad-case log file is configured
    badcase_dumper,                     \* "unset", "open" or "closed"
    dumped,                             \* the samples written to the bad-case log file
    train_set, dev_set, test_set,       \* the three partitions
    todo,                               \* __init__: the load calls still to make
    call,                               \* the last _load_dataset call: arguments and outcome
    pc,                                 \* position of the constructor, resp. the generator
    set_name, batch_size, pad_id, shuffle,   \* arguments of the running gen_mini_batches
    is_testing, indices, batch_start,   \* its locals
    batch_data,                         \* the batch it yielded last
    yielded,                            \* the index lists of the batches yielded in this pass
    exception                           \* the exception that ended the generator, or "none"

vars == <<max_p_num, max_p_len, max_q_len, badcase_sample_log_file, badcase_dumper,
          dumped, train_set, dev_set, test_set, todo, call, pc, set_name, batch_size,
          pad_id, shuffle, is_testing, indices, batch_start, batch_data, yielded,
          exception>>

configVars == <<max_p_num, max_p_len, max_q_len, badcase_sample_log_file>>
loadVars == <<badcase_dumper, dumped, train_set, dev_set, test_set, todo, call>>
genVars == <<set_name, batch_size, pad_id, shuffle, is_testing, indices, batch_start,
             batch_data, yielded, exception>>

\* ------------------------------------------------------- mini-batch assembler
\* lines 209-234: the row of sample for passage slot pidx (0-based)
Row(sample, pidx, testing) ==
    IF pidx < Len(sample.documents)
    THEN LET doc == sample.documents[pidx + 1]
         IN  [question_token_ids |-> sample.question_token_ids,
              question_length    |-> Len(sample.question_token_ids),
              passage_token_ids  |-> doc.passage_token_ids,
              passage_length     |-> Min(Len(doc.passage_token_ids), max_p_len),
              pos_questions      |-> sample.pos_question,
              keyword_questions  |-> sample.keyword_question,
              pos_passages       |-> doc.pos_passage,
              keyword_passages   |-> doc.keyword_passage,
              is_selected        |-> IF ~testing THEN PyInt(doc.is_selected) ELSE 0]
    ELSE [question_token_ids |-> <<>>, question_length |-> 0,
          passage_token_ids  |-> <<>>, passage_length  |-> 0,
          pos_questions      |-> <<>>, keyword_questions |-> <<>>,
          pos_passages       |-> <<>>, keyword_passages  |-> <<>>,
          is_selected        |-> 0]

\* a variant of PadTo that pads but never truncates
PadToNoSlice(seq, pad, pad_len) == seq \o PyRepeat(pad, pad_len - Len(seq))

\* lines 271-278: (seq + [pad] * (pad_len - len(seq)))[: pad_len]
PadTo(seq, pad, pad_len) == PySliceTo(seq \o PyRepeat(pad, pad_len - Len(seq)), pad_len)

\* line 269 and line 270
PadPLen(passage_length) == Min(max_p_len, PyMax(passage_length))
PadQLen(question_length) == Min(max_q_len, PyMax(question_length))

\* lines 265-280: _dynamic_padding; max() of an empty list raises ValueError
DynamicPadding(b, pad) ==
    IF b.passage_length = <<>>
    THEN [raised |-> "ValueError", batch_data |-> b, pad_p_len |-> 0, pad_q_len |-> 0]
    ELSE LET pad_p_len == PadPLen(b.passage_length)
             pad_q_len == PadQLen(b.question_length)
             Each(rows, v, n) == [i \in 1..Len(rows) |-> PadTo(rows[i], v, n)]
         IN  [raised |-> "none",
              batch_data |->
                 [b EXCEPT !.passage_token_ids  = Each(@, pad, pad_p_len),
                           !.question_token_ids = Each(@, pad, pad_q_len),
                           !.pos_questions      = Each(@, -1, pad_q_len),
                           !.keyword_questions  = Each(@, -1, pad_q_len),
                           !.pos_passages       = Each(@, -1, pad_p_len),
                           !.keyword_passages   = Each(@, -1, pad_p_len)],
              pad_p_len |-> pad_p_len,
              pad_q_len |-> pad_q_len]

\* a variant of Labels whose stride is the configured maximum passage length
LabelsMaxLenStride(sample, max_ans_num, padded_p_len) ==
    LET has(aidx) == aidx < Len(sample.best_match_doc_ids)
        gold_passage_offset(aidx) == max_p_len * sample.best_match_doc_ids[aidx + 1]
    IN  [start_ids |-> [a \in 1..max_ans_num |->
                          IF has(a - 1)
                          THEN gold_passage_offset(a - 1) + sample.answer_labels[a][1] ELSE 0],
         end_ids   |-> [a \in 1..max_ans_num |->
                          IF has(a - 1)
                          THEN gold_passage_offset(a - 1) + sample.answer_labels[a][2] ELSE 0],
         scores    |-> [a \in 1..max_ans_num |->
                          IF has(a - 1) THEN sample.best_match_scores[a] ELSE 0]]

\* lines 244-253: the labels of one sample, remapped with stride padded_p_len
Labels(sample, max_ans_num, padded_p_len) ==
    LET has(aidx) == aidx < Len(sample.best_match_doc_ids)
        gold_passage_offset(aidx) == padded_p_len * sample.best_match_doc_ids[aidx + 1]
    IN  [start_ids |-> [a \in 1..max_ans_num |->
                          IF has(a - 1)
                          THEN gold_passage_offset(a - 1) + sample.answer_labels[a][1] ELSE 0],
         end_ids   |-> [a \in 1..max_ans_num |->
                          IF has(a - 1)
                          THEN gold_passage_offset(a - 1) + sample.answer_labels[a][2] ELSE 0],
         scores    |-> [a \in 1..max_ans_num |->
                          IF has(a - 1) THEN sample.best_match_scores[a] ELSE 0]]

\* a variant of MaxPassageNum without the cap max_p_num
MaxPassageNumNoCap(raw_data) ==
    PyMax([s \in 1..Len(raw_data) |-> Len(raw_data[s].documents)])

\* a variant of MaxAnsNum that takes the answer count of the first sample
MaxAnsNumFirst(raw_data) == Len(raw_data[1].answer_labels)

\* line 202-203 and line 205
MaxPassageNum(raw_data) ==
    Min(max_p_num, PyMax([s \in 1..Len(raw_data) |-> Len(raw_data[s].documents)]))
MaxAnsNum(raw_data) == PyMax([s \in 1..Len(raw_data) |-> Len(raw_data[s].answer_labels)])

\* batch_data before any batch was built
NoBatch ==
    [raw_data |-> <<>>, question_token_ids |-> <<>>, pos_questions |-> <<>>,
     keyword_questions |-> <<>>, question_length |-> <<>>, passage_token_ids |-> <<>>,
     pos_passages |-> <<>>, keyword_passages |-> <<>>, passage_length |-> <<>>,
     start_ids |-> <<>>, end_ids |-> <<>>, is_selected |-> <<>>, match_scores |-> <<>>]

\* lines 210 and 212: the row of sample for passage slot pidx reads the keys
\* question_token_ids and passage_token_ids, which only convert_to_ids sets
RowKeyError(sample, pidx) ==
    /\ pidx < Len(sample.documents)
    /\ \/ sample.question_token_ids = Absent
       \/ sample.documents[pidx + 1].passage_token_ids = Absent

\* lines 176-263: _one_mini_batch; idx is a non-empty list of 0-based indices
OneMiniBatch(data, idx, pad, testing) ==
    LET raw_data == [i \in 1..Len(idx) |-> data[idx[i] + 1]]
        max_passage_num == MaxPassageNum(raw_data)
        max_ans_num == MaxAnsNum(raw_data)
        key_error == \E s \in 1..Len(raw_data) : \E p \in 1..max_passage_num :
                        RowKeyError(raw_data[s], p - 1)
        rows == Concat([s \in 1..Len(raw_data) |->
                          [p \in 1..max_passage_num |-> Row(raw_data[s], p - 1, testing)]])
        Col(f) == [i \in 1..Len(rows) |-> rows[i][f]]
        b == [raw_data |-> raw_data,
              question_token_ids |-> Col("question_token_ids"),
              pos_questions      |-> Col("pos_questions"),
              keyword_questions  |-> Col("keyword_questions"),
              question_length    |-> Col("question_length"),
              passage_token_ids  |-> Col("passage_token_ids"),
              pos_passages       |-> Col("pos_passages"),
              keyword_passages   |-> Col("keyword_passages"),
              passage_length     |-> Col("passage_length"),
              start_ids |-> <<>>, end_ids |-> <<>>,
              is_selected        |-> Col("is_selected"),
              match_scores |-> <<>>]
        padded == DynamicPadding(b, pad)
        lab(s) == Labels(raw_data[s], max_ans_num, padded.pad_p_len)
    IN  IF key_error THEN [raised |-> "KeyError", batch_data |-> NoBatch]
        ELSE IF padded.raised # "none" THEN [raised |-> padded.raised, batch_data |-> b]
        ELSE [raised |-> "none",
              batch_data |->
                 IF ~testing
                 THEN [padded.batch_data EXCEPT
                         !.start_ids    = [s \in 1..Len(raw_data) |-> lab(s).start_ids],
                         !.end_ids      = [s \in 1..Len(raw_data) |-> lab(s).end_ids],
                         !.match_scores = [s \in 1..Len(raw_data) |-> lab(s).scores]]
                 ELSE [padded.batch_data EXCEPT
                         !.start_ids    = PyRepeat(PyRepeat(0, max_ans_num), Len(idx)),
                         !.end_ids      = PyRepeat(PyRepeat(0, max_ans_num), Len(idx)),
                         !.match_scores = PyRepeat(PyRepeat(0, max_ans_num), Len(idx))]]


\* lines 158-167: the partition a set_name selects and the is_testing that goes
\* with it; any other name raises NotImplementedError
Partition(sn) ==
    IF sn = "train" THEN [raised |-> "none", data |-> train_set, is_testing |-> FALSE]
    ELSE IF sn = "dev" THEN [raised |-> "none", data |-> dev_set, is_testing |-> FALSE]
    ELSE IF sn = "test" THEN [raised |-> "none", data |-> test_set, is_testing |-> TRUE]
    ELSE [raised |-> "NotImplementedError", data |-> <<>>, is_testing |-> FALSE]

SetNames == {"train", "dev", "test"}
\* the set_name arguments tried: the three names and one that is none of them
SetArgs == SetNames \cup {"valid"}

\* np.arange(data_size), and what np.random.shuffle can make of it
Arange(n) == [i \in 1..n |-> i - 1]
Shuffles(n) == {p \in [1..n -> 0..(n - 1)] : \A i, j \in 1..n : p[i] = p[j] => i = j}

\* lines 158-171: a call of gen_mini_batches, up to the loop
GenMiniBatches(sn, bs, pad, sh) ==
    /\ pc = "ready"
    /\ Partition(sn).raised = "none"
    /\ set_name' = sn
    /\ batch_size' = bs
    /\ pad_id' = pad
    /\ shuffle' = sh
    /\ is_testing' = Partition(sn).is_testing
    /\ indices' \in IF sh THEN Shuffles(Len(Partition(sn).data))
                   ELSE {Arange(Len(Partition(sn).data))}
    /\ batch_start' = 0
    /\ batch_data' = NoBatch
    /\ yielded' = <<>>
    /\ exception' = "none"
    /\ pc' = "iterating"
    /\ UNCHANGED <<configVars, loadVars>>

\* lines 158-167: a call of gen_mini_batches with a set_name that is none of
\* the three: the generator raises before it yields anything
GenMiniBatchesRaises(sn, bs, pad, sh) ==
    /\ pc = "ready"
    /\ Partition(sn).raised # "none"
    /\ set_name' = sn
    /\ batch_size' = bs
    /\ pad_id' = pad
    /\ shuffle' = sh
    /\ is_testing' = FALSE
    /\ indices' = <<>>
    /\ batch_start' = 0
    /\ batch_data' = NoBatch
    /\ yielded' = <<>>
    /\ exception' = Partition(sn).raised
    /\ pc' = "raised"
    /\ UNCHANGED <<configVars, loadVars>>

\* lines 172-174: one turn of the loop that yields a batch
YieldBatch ==
    /\ pc = "iterating"
    /\ batch_start < Len(Partition(set_name).data)
    /\ LET batch_indices == PySlice(indices, batch_start, batch_size)
           r == OneMiniBatch(Partition(set_name).data, batch_indices, pad_id, is_testing)
       IN  /\ r.raised = "none"
           /\ batch_data' = r.batch_data
           /\ yielded' = Append(yielded, batch_indices)
    /\ batch_start' = batch_start + batch_size
    /\ UNCHANGED <<configVars, loadVars, pc, set_name, batch_size, pad_id, shuffle,
                   is_testing, indices, exception>>

\* lines 172-174: one turn of the loop in which _one_mini_batch raises
BatchRaises ==
    /\ pc = "iterating"
    /\ batch_start < Len(Partition(set_name).data)
    /\ LET batch_indices == PySlice(indices, batch_start, batch_size)
           r == OneMiniBatch(Partition(set_name).data, batch_indices, pad_id, is_testing)
       IN  /\ r.raised # "none"
           /\ exception' = r.raised
    /\ pc' = "raised"
    /\ UNCHANGED <<configVars, loadVars, set_name, batch_size, pad_id, shuffle, is_testing,
                   indices, batch_start, batch_data, yielded>>

\* line 172: the loop ends, the generator is exhausted
StopIteration ==
    /\ pc = "iterating"
    /\ batch_start >= Len(Partition(set_name).data)
    /\ pc' = "exhausted"
    /\ UNCHANGED <<configVars, loadVars, genVars>>

\* lines 133-145: convert_to_ids(vocab) rewrites the samples of the three
\* partitions in place; the caller may run it before a pass or between two
\* batches of one
ConvertToIds ==
    /\ train_set' = ConvertSet(train_set)
    /\ dev_set' = ConvertSet(dev_set)
    /\ test_set' = ConvertSet(test_set)
    /\ UNCHANGED <<configVars, badcase_dumper, dumped, todo, call, pc, genVars>>

\* ------------------------------------------------- inputs of the batch model
PadIds == {0}

\* the passage lengths of the documents of one record: the documents of a
\* record are all of one length
DocLens == {[d \in 1..n |-> len] : n \in DocCounts, len \in PassageLens}
\* best_match_doc_ids of a record with these documents
AnswerDocs(lens) == UNION {[1..n -> 0..(Len(lens) - 1)] : n \in AnswerCounts}
\* an answer spans the whole passage it was found in
WholePassage(lens, docs) == [a \in 1..Len(docs) |-> <<0, lens[docs[a] + 1] - 1>>]
\* the shorter the passages of a record, the longer its question
QuestionLen(lens) ==
    IF lens = <<>> THEN 1
    ELSE (CHOOSE m \in PassageLens : \A x \in PassageLens : x <= m) + 1 - lens[1]

BatchSamples ==
    UNION {{Sample(QuestionLen(lens), lens, WholePassage(lens, docs), docs) :
               docs \in AnswerDocs(lens)} : lens \in DocLens}

\* a file of data lines; the record of line i has question_id i
FileOf(samples) == [i \in 1..Len(samples) |-> <<[samples[i] EXCEPT !.question_id = i]>>]

BatchFiles == {FileOf(f) : f \in UNION {[1..n -> BatchSamples] : n \in 0..MaxRecords}}

\* The dataset after construction from one file given as train, dev and test
\* file.
BatchInit ==
    /\ max_p_num \in DocCounts \ {0}
    /\ max_p_len \in PassageLens
    /\ max_q_len \in PassageLens
    /\ badcase_sample_log_file = TRUE
    /\ \E lines \in BatchFiles :
         LET tr == LoadDataset(lines, TRUE, TRUE, "open")
             dv == LoadDataset(lines, FALSE, TRUE, "closed")
         IN  /\ train_set = tr.data_set
             /\ dev_set = dv.data_set
             /\ test_set = dv.data_set
             /\ dumped = tr.written
             /\ call = [made |-> TRUE, train |-> FALSE, lines |-> lines,
                        dumper |-> "closed", result |-> dv]
    /\ badcase_dumper = "closed"
    /\ todo = [train |-> 0, dev |-> 0, test |-> 0]
    /\ pc = "ready"
    /\ set_name = "train"
    /\ batch_size = 1
    /\ pad_id = 0
    /\ shuffle = FALSE
    /\ is_testing = FALSE
    /\ indices = <<>>
    /\ batch_start = 0
    /\ batch_data = NoBatch
    /\ yielded = <<>>
    /\ exception = "none"

BatchNext ==
    \/ ConvertToIds
    \/ \E sn \in SetArgs, bs \in 1..MaxBatchSize, pad \in PadIds, sh \in BOOLEAN :
          \/ GenMiniBatches(sn, bs, pad, sh)
          \/ GenMiniBatchesRaises(sn, bs, pad, sh)
    \/ YieldBatch
    \/ BatchRaises
    \/ StopIteration

SpecBatch == BatchInit /\ [][BatchNext]_vars

\* ------------------------------------------------ _one_mini_batch, call by call
\* the records of one batch: these samples as a file holds them, ids attached
BatchData(samples) == ConvertSet([i \in 1..Len(samples) |-> FileOf(samples)[i][1]])

\* lines 176-263: a call _one_mini_batch(self.train_set,
\* arange(len(self.train_set)), pad, testing) that returns its batch
OneMiniBatchReturns(pad, testing) ==
    /\ pc = "ready"
    /\ LET r == OneMiniBatch(train_set, Arange(Len(train_set)), pad, testing)
       IN  /\ r.raised = "none"
           /\ batch_data' = r.batch_data
    /\ pad_id' = pad
    /\ is_testing' = testing
    /\ indices' = Arange(Len(train_set))
    /\ exception' = "none"
    /\ pc' = "returned"
    /\ UNCHANGED <<configVars, loadVars, set_name, batch_size, shuffle, batch_start, yielded>>

\* lines 176-263: the same call when it raises
OneMiniBatchRaises(pad, testing) ==
    /\ pc = "ready"
    /\ OneMiniBatch(train_set, Arange(Len(train_set)), pad, testing).raised # "none"
    /\ exception' = OneMiniBatch(train_set, Arange(Len(train_set)), pad, testing).raised
    /\ pad_id' = pad
    /\ is_testing' = testing
    /\ indices' = Arange(Len(train_set))
    /\ pc' = "raised"
    /\ UNCHANGED <<configVars, loadVars, set_name, batch_size, shuffle, batch_start,
                   batch_data, yielded>>

\* a dataset whose training partition holds the records of one batch
OneBatchInit ==
    /\ max_p_num \in DocCounts \ {0}
    /\ max_p_len \in PassageLens
    /\ max_q_len \in PassageLens
    /\ badcase_sample_log_file = FALSE
    /\ badcase_dumper = "unset"
    /\ dumped = <<>>
    /\ \E n \in 1..MaxBatchSize : \E samples \in [1..n -> BatchSamples] :
          train_set = BatchData(samples)
    /\ dev_set = <<>>
    /\ test_set = <<>>
    /\ todo = [train |-> 0, dev |-> 0, test |-> 0]
    /\ call = [made |-> FALSE, train |-> FALSE, lines |-> <<>>, dumper |-> "unset",
               result |-> [data_set |-> <<>>, written |-> <<>>, raised |-> "none",
                           dumper |-> "unset"]]
    /\ pc = "ready"
    /\ set_name = "train"
    /\ batch_size = 1
    /\ pad_id = 0
    /\ shuffle = FALSE
    /\ is_testing = FALSE
    /\ indices = <<>>
    /\ batch_start = 0
    /\ batch_data = NoBatch
    /\ yielded = <<>>
    /\ exception = "none"

OneBatchNext ==
    \E pad \in PadIds, testing \in BOOLEAN :
        \/ OneMiniBatchReturns(pad, testing)
        \/ OneMiniBatchRaises(pad, testing)

SpecOneBatch == OneBatchInit /\ [][OneBatchNext]_vars


\* ------------------------------------------------------------- constructor
NoCall == [made |-> FALSE, train |-> FALSE, lines |-> <<>>, dumper |-> "unset",
           result |-> [data_set |-> <<>>, written |-> <<>>, raised |-> "none",
                       dumper |-> "unset"]]

\* lines 24-33: the head of __init__
OpenDumper ==
    /\ pc = "init"
    /\ badcase_dumper' = IF badcase_sample_log_file THEN "open" ELSE "unset"
    /\ pc' = "loading"
    /\ UNCHANGED <<configVars, dumped, train_set, dev_set, test_set, todo, call, genVars>>

\* One _load_dataset call of __init__ on a file with these lines.  An
\* exception leaves __init__ and the partitions are never assigned.
LoadCall(lines, train) ==
    LET r == LoadDataset(lines, train, badcase_sample_log_file, badcase_dumper)
    IN  /\ call' = [made |-> TRUE, train |-> train, lines |-> lines,
                    dumper |-> badcase_dumper, result |-> r]
        /\ dumped' = dumped \o r.written
        /\ badcase_dumper' = r.dumper
        /\ pc' = IF r.raised # "none" THEN "raised"
                 ELSE IF pc = "loading" THEN "loading" ELSE "returned"

\* line 36
LoadTrainFile(lines) ==
    /\ pc = "loading"
    /\ todo.train > 0
    /\ LoadCall(lines, TRUE)
    /\ train_set' = IF call'.result.raised = "none"
                    THEN train_set \o call'.result.data_set ELSE train_set
    /\ todo' = [todo EXCEPT !.train = @ - 1]
    /\ UNCHANGED <<configVars, dev_set, test_set, genVars>>

\* line 41
LoadDevFile(lines) ==
    /\ pc = "loading"
    /\ todo.train = 0 /\ todo.dev > 0
    /\ LoadCall(lines, FALSE)
    /\ dev_set' = dev_set \o call'.result.data_set
    /\ todo' = [todo EXCEPT !.dev = @ - 1]
    /\ UNCHANGED <<configVars, train_set, test_set, genVars>>

\* line 46
LoadTestFile(lines) ==
    /\ pc = "loading"
    /\ todo.train = 0 /\ todo.dev = 0 /\ todo.test > 0
    /\ LoadCall(lines, FALSE)
    /\ test_set' = test_set \o call'.result.data_set
    /\ todo' = [todo EXCEPT !.test = @ - 1]
    /\ UNCHANGED <<configVars, train_set, dev_set, genVars>>

\* line 47: __init__ returns
Constructed ==
    /\ pc = "loading"
    /\ todo.train = 0 /\ todo.dev = 0 /\ todo.test = 0
    /\ pc' = "constructed"
    /\ UNCHANGED <<configVars, loadVars, genVars>>

\* --------------------------------------------------- inputs of the load model
\* the labels of an answer: both ends found (two different spans), only the
\* start found, only the end found, neither found
Unresolved == <<-1, -1>>
Resolved == <<0, 1>>
ResolvedLate == <<1, 1>>
HalfResolved == <<1, -1>>
StartUnresolved == <<-1, 1>>
LabelKinds == <<Unresolved, Resolved, ResolvedLate, HalfResolved, StartUnresolved>>

\* answer_labels: every sequence of up to MaxLabels labels
LabelSeqs ==
    {[a \in 1..Len(k) |-> LabelKinds[k[a]]] :
        k \in UNION {[1..n -> 1..Len(LabelKinds)] : n \in 0..MaxLabels}}

\* a record with these answer_labels; answer a was found in document a - 1
LoadSample(labels) ==
    Sample(1, [d \in 1..MaxLabels |-> 2], labels, [a \in 1..Len(labels) |-> a - 1])
EmptyQuestion == Sample(0, <<2>>, <<Resolved>>, <<0>>)
NoDocuments == Sample(1, <<>>, <<>>, <<>>)

LoadSamples == {LoadSample(l) : l \in LabelSeqs} \cup {EmptyQuestion, NoDocuments}
\* the records with at most one answer
ShortSamples == {s \in LoadSamples : Len(s.answer_labels) <= 1}

\* a line is <<>> (it holds no '{') or <<sample>>; the record of line i has
\* question_id i
NumberLines(f) ==
    [i \in 1..Len(f) |-> IF f[i] = <<>> THEN <<>> ELSE <<[f[i][1] EXCEPT !.question_id = i]>>]

\* the files handed to the constructor: up to MaxLines lines, blank or a record
\* with at most one answer
LoadFiles ==
    {NumberLines(f) :
        f \in UNION {[1..n -> {<<>>} \cup {<<s>> : s \in ShortSamples}] : n \in 0..MaxLines}}

\* the file of a single _load_dataset call: line i is any line, the others are
\* blank, a record without question or a record with one resolved answer
PlainLines == {<<>>, <<EmptyQuestion>>, <<LoadSample(<<Resolved>>)>>}
AnyLines == {<<>>} \cup {<<s>> : s \in LoadSamples}
CallFile(plain, line, i) ==
    NumberLines([j \in 1..Len(plain) |-> IF j = i THEN line ELSE plain[j]])

\* the constructor is called with up to MaxFiles files
LoadInit ==
    /\ max_p_num = 2
    /\ max_p_len = 2
    /\ max_q_len = 2
    /\ badcase_sample_log_file \in BOOLEAN
    /\ badcase_dumper = "unset"
    /\ dumped = <<>>
    /\ train_set = <<>>
    /\ dev_set = <<>>
    /\ test_set = <<>>
    /\ todo \in {t \in [train : 0..MaxFiles, dev : 0..MaxFiles, test : 0..MaxFiles] :
                   t.train + t.dev + t.test <= MaxFiles}
    /\ call = NoCall
    /\ pc = "init"
    /\ set_name = "train"
    /\ batch_size = 1
    /\ pad_id = 0
    /\ shuffle = FALSE
    /\ is_testing = FALSE
    /\ indices = <<>>
    /\ batch_start = 0
    /\ batch_data = NoBatch
    /\ yielded = <<>>
    /\ exception = "none"

LoadNext ==
    \/ OpenDumper
    \/ \E lines \in LoadFiles : LoadTrainFile(lines)
    \/ \E lines \in LoadFiles : LoadDevFile(lines)
    \/ \E lines \in LoadFiles : LoadTestFile(lines)
    \/ Constructed

SpecLoad == LoadInit /\ [][LoadNext]_vars

\* -------------------------------------------------- _load_dataset, call by call
\* lines 49-105: one call _load_dataset(data_path, train) on the file at
\* data_path, whose lines call.lines holds
LoadDatasetCall(train) ==
    /\ pc = "ready"
    /\ LoadCall(call.lines, train)
    /\ UNCHANGED <<configVars, train_set, dev_set, test_set, todo, genVars>>

\* a dataset whose bad-case sink, if configured, is as __init__ opened it or
\* as an earlier _load_dataset call left it, and the file of the call to come
LoadCallInit ==
    /\ max_p_num = 2
    /\ max_p_len = 2
    /\ max_q_len = 2
    /\ badcase_sample_log_file \in BOOLEAN
    /\ badcase_dumper \in IF badcase_sample_log_file THEN {"open", "closed"} ELSE {"unset"}
    /\ dumped = <<>>
    /\ train_set = <<>>
    /\ dev_set = <<>>
    /\ test_set = <<>>
    /\ todo = [train |-> 0, dev |-> 0, test |-> 0]
    /\ \E n \in 0..MaxLines : \E plain \in [1..n -> PlainLines], line \in AnyLines, i \in 0..n :
          call = [NoCall EXCEPT !.lines = CallFile(plain, line, i)]
    /\ pc = "ready"
    /\ set_name = "train"
    /\ batch_size = 1
    /\ pad_id = 0
    /\ shuffle = FALSE
    /\ is_testing = FALSE
    /\ indices = <<>>
    /\ batch_start = 0
    /\ batch_data = NoBatch
    /\ yielded = <<>>
    /\ exception = "none"

LoadCallNext == \E train \in BOOLEAN : LoadDatasetCall(train)

SpecLoadCall == LoadCallInit /\ [][LoadCallNext]_vars


\* ---------------------------------------------------------------- properties
\* a batch has been yielded in the running pass; batch_data is the last one
HasBatch == batch_data.raw_data # <<>>
IsTesting == is_testing
PassEnded == pc \in {"exhausted", "raised"}

\* what the documentation calls max_passage_num, max_answer_num, pad_p_len and
\* pad_q_len of the yielded batch, from the records and fields of the batch
DocCount(s) == Len(batch_data.raw_data[s].documents)
AnsCount(s) == Len(batch_data.raw_data[s].answer_labels)
BatchRecords == 1..Len(batch_data.raw_data)
LargestOf(S) == CHOOSE m \in S : \A x \in S : x <= m
SpecMaxPassageNum == Min(max_p_num, LargestOf({DocCount(s) : s \in BatchRecords}))
SpecMaxAnswerNum == LargestOf({AnsCount(s) : s \in BatchRecords})
SpecPadPLen ==
    Min(max_p_len, LargestOf({batch_data.passage_length[i] : i \in 1..Len(batch_data.passage_length)}))
SpecPadQLen ==
    Min(max_q_len, LargestOf({batch_data.question_length[i] : i \in 1..Len(batch_data.question_length)}))

\* C1: one full pass of gen_mini_batches yields every record of the partition
\* exactly once, every batch but the last holds batch_size records, and without
\* shuffle the records come in partition order.
C1_FullPassCoversPartition ==
    (PassEnded /\ set_name \in SetNames /\ exception # "KeyError") =>
        LET flat == Concat(yielded)
            n == Len(Partition(set_name).data)
        IN  /\ Len(flat) = n
            /\ \A r \in 0..(n - 1) : Cardinality({i \in 1..Len(flat) : flat[i] = r}) = 1
            /\ \A b \in 1..(Len(yielded) - 1) : Len(yielded[b]) = batch_size
            /\ ~shuffle => flat = Arange(n)

\* C2: in a non-test batch the start and end of every answer a record has are
\* its passage-local offsets plus pad_p_len * best_match_doc_ids[a], pad_p_len
\* being the padded passage length of this batch.
C2_SpanRemapping ==
    (HasBatch /\ ~IsTesting) =>
        \A s \in BatchRecords : \A a \in 1..AnsCount(s) :
            LET sample == batch_data.raw_data[s]
            IN  /\ batch_data.start_ids[s][a] =
                     SpecPadPLen * sample.best_match_doc_ids[a] + sample.answer_labels[a][1]
                /\ batch_data.end_ids[s][a] =
                     SpecPadPLen * sample.best_match_doc_ids[a] + sample.answer_labels[a][2]

\* C2 witness: a non-test batch whose padded passage length is below the
\* configured maximum, with an answer found in a later document
C2_Witness ==
    /\ HasBatch /\ ~IsTesting
    /\ SpecPadPLen < max_p_len
    /\ \E s \in BatchRecords : \E a \in 1..AnsCount(s) :
          /\ batch_data.raw_data[s].best_match_doc_ids[a] >= 1
          /\ batch_data.start_ids[s][a] > 0


\* the position of the row of record s (1-based) and passage slot p (1-based)
RowOf(s, p) == (s - 1) * SpecMaxPassageNum + p
HasDoc(s, p) == p <= DocCount(s)
NoRow == <<>>
\* the rows of record s and slot p before padding: [question, passage] side
OrigRow(s, p) ==
    LET sample == batch_data.raw_data[s]
    IN  IF HasDoc(s, p)
        THEN [question_token_ids |-> sample.question_token_ids,
              pos_questions      |-> sample.pos_question,
              keyword_questions  |-> sample.keyword_question,
              passage_token_ids  |-> sample.documents[p].passage_token_ids,
              pos_passages       |-> sample.documents[p].pos_passage,
              keyword_passages   |-> sample.documents[p].keyword_passage]
        ELSE [question_token_ids |-> NoRow, pos_questions |-> NoRow,
              keyword_questions  |-> NoRow, passage_token_ids |-> NoRow,
              pos_passages       |-> NoRow, keyword_passages |-> NoRow]
\* row is orig cut or filled with v
CutOrFilled(row, orig, v) ==
    \A j \in 1..Len(row) : row[j] = IF j <= Len(orig) THEN orig[j] ELSE v

QuestionFields == {"question_token_ids", "pos_questions", "keyword_questions"}
PassageFields == {"passage_token_ids", "pos_passages", "keyword_passages"}
RowFields == QuestionFields \cup PassageFields \cup {"question_length", "passage_length", "is_selected"}
PadValue(f) == IF f \in {"question_token_ids", "passage_token_ids"} THEN pad_id ELSE -1

\* C3: every per-row field of a batch has len(raw_data) * max_passage_num
\* entries, max_passage_num = min(max_p_num, largest document count), and the
\* entry at s * max_passage_num + p is the row of record s and passage slot p.
C3_RowLayout ==
    HasBatch =>
        /\ \A f \in RowFields : Len(batch_data[f]) = Len(batch_data.raw_data) * SpecMaxPassageNum
        /\ \A s \in BatchRecords : \A p \in 1..SpecMaxPassageNum :
              LET i == RowOf(s, p)
                  sample == batch_data.raw_data[s]
              IN  /\ batch_data.question_length[i] =
                        IF HasDoc(s, p) THEN Len(sample.question_token_ids) ELSE 0
                  /\ batch_data.passage_length[i] =
                        IF HasDoc(s, p)
                        THEN Min(Len(sample.documents[p].passage_token_ids), max_p_len) ELSE 0
                  /\ batch_data.is_selected[i] =
                        IF HasDoc(s, p) /\ ~IsTesting
                        THEN PyInt(sample.documents[p].is_selected) ELSE 0
                  /\ \A f \in QuestionFields \cup PassageFields :
                        CutOrFilled(batch_data[f][i], OrigRow(s, p)[f], PadValue(f))

\* C3 witness: a batch of two records, the second with more documents than
\* the first, and more than one passage slot
C3_Witness ==
    /\ HasBatch
    /\ Len(batch_data.raw_data) = 2
    /\ SpecMaxPassageNum = 2
    /\ DocCount(1) = 1 /\ DocCount(2) = 2

\* C7: batch assembly raises on no shape edge case: an empty partition yields
\* no batch, a batch of records without answers has label columns of width
\* zero, and a batch with records without documents is produced all the same.
C7_NoFailureOnEdgeCases ==
    /\ exception # "ValueError"
    /\ (pc = "exhausted" /\ Partition(set_name).data = <<>>) => yielded = <<>>
    /\ (HasBatch /\ \A s \in BatchRecords : AnsCount(s) = 0) =>
          \A s \in BatchRecords :
              /\ batch_data.start_ids[s] = <<>>
              /\ batch_data.end_ids[s] = <<>>
              /\ batch_data.match_scores[s] = <<>>

\* C8: after padding every passage-side row has length pad_p_len and every
\* question-side row length pad_q_len; a padded row is the original row cut to
\* that length or filled with the pad value, and padding it again to the same
\* length changes nothing.
C8_PaddedRows ==
    HasBatch =>
        \A s \in BatchRecords : \A p \in 1..SpecMaxPassageNum :
            /\ \A f \in PassageFields :
                  LET row == batch_data[f][RowOf(s, p)]
                  IN  /\ Len(row) = SpecPadPLen
                      /\ CutOrFilled(row, OrigRow(s, p)[f], PadValue(f))
                      /\ PadTo(row, PadValue(f), SpecPadPLen) = row
            /\ \A f \in QuestionFields :
                  LET row == batch_data[f][RowOf(s, p)]
                  IN  /\ Len(row) = SpecPadQLen
                      /\ CutOrFilled(row, OrigRow(s, p)[f], PadValue(f))
                      /\ PadTo(row, PadValue(f), SpecPadQLen) = row

\* C8 witness: a batch with a passage row that was cut, a passage row that was
\* filled, and a question row that was cut
C8_Witness ==
    /\ HasBatch
    /\ \E s \in BatchRecords : \E p \in 1..SpecMaxPassageNum :
          Len(OrigRow(s, p).passage_token_ids) > SpecPadPLen
    /\ \E s \in BatchRecords : \E p \in 1..SpecMaxPassageNum :
          Len(OrigRow(s, p).question_token_ids) > SpecPadQLen
    /\ \E s \in BatchRecords : \E p \in 1..SpecMaxPassageNum :
          Len(OrigRow(s, p).passage_token_ids) < SpecPadPLen

\* C9: start_ids, end_ids and match_scores have one entry per record, each of
\* length max_answer_num; a slot beyond the answers of a record holds 0, and
\* in a test-mode batch every entry is 0.
C9_LabelShape ==
    HasBatch =>
        \A f \in {"start_ids", "end_ids", "match_scores"} :
            /\ Len(batch_data[f]) = Len(batch_data.raw_data)
            /\ \A s \in BatchRecords :
                  /\ Len(batch_data[f][s]) = SpecMaxAnswerNum
                  /\ \A a \in 1..SpecMaxAnswerNum :
                        (IsTesting \/ a > AnsCount(s)) => batch_data[f][s][a] = 0

\* C9 witness: a non-test batch in which one record has fewer answers than
\* another, so that it has a slot to fill
C9_Witness ==
    /\ HasBatch /\ ~IsTesting
    /\ \E s, t \in BatchRecords : AnsCount(s) = 1 /\ AnsCount(t) = 2
    /\ \E s \in BatchRecords : batch_data.match_scores[s][1] > 0

\* C10: in a non-test batch every remapped span lies inside the padded block
\* of its own passage: with k = best_match_doc_ids[a], k < max_passage_num and
\* k * pad_p_len <= start <= end < (k + 1) * pad_p_len.
C10_SpanInsideOwnBlock ==
    (HasBatch /\ ~IsTesting) =>
        \A s \in BatchRecords : \A a \in 1..AnsCount(s) :
            LET k == batch_data.raw_data[s].best_match_doc_ids[a]
            IN  /\ k < SpecMaxPassageNum
                /\ k * SpecPadPLen <= batch_data.start_ids[s][a]
                /\ batch_data.start_ids[s][a] <= batch_data.end_ids[s][a]
                /\ batch_data.end_ids[s][a] < (k + 1) * SpecPadPLen


\* ------------------------------------------------------ properties of loading
\* the last _load_dataset call was a training-mode load with a configured sink
TrainCall == call.made /\ call.train /\ badcase_sample_log_file
\* what the call added to its partition, and what it wrote to the sink
Accepted == IF call.result.raised = "none" THEN call.result.data_set ELSE <<>>
Rejected == call.result.written
DataLines == {i \in 1..Len(call.lines) : call.lines[i] # <<>>}
Original(i) == call.lines[i][1]
Among(samples, i) == {j \in 1..Len(samples) : samples[j].question_id = i}

\* seq without the entries at the indices in drop, the others in their order
Without(seq, drop) ==
    LET keep == {i \in 1..Len(seq) : i \notin drop}
        Nth(j) == CHOOSE i \in keep : Cardinality({k \in keep : k <= i}) = j
    IN  [j \in 1..Cardinality(keep) |-> seq[Nth(j)]]
ParallelFields == {"answer_labels", "best_match_doc_ids", "best_match_scores", "fake_answers"}
FilteredBy(sample, orig, drop) ==
    \A f \in ParallelFields : sample[f] = Without(orig[f], drop)

\* C4 as claimed: an accepted training record keeps every answer label but
\* those equal to (-1, -1), with the three parallel sequences filtered alike.
C4_DropsOnlyBothUnresolved ==
    TrainCall =>
        \A j \in 1..Len(Accepted) :
            LET orig == Original(Accepted[j].question_id)
            IN  FilteredBy(Accepted[j], orig,
                           {i \in 1..Len(orig.answer_labels) : orig.answer_labels[i] = <<-1, -1>>})

\* C4 amended: an accepted training record keeps every answer label but those
\* whose start or end is -1, in their order, and best_match_doc_ids,
\* best_match_scores and fake_answers are filtered at the same indices.
C4_DropsEitherUnresolved ==
    TrainCall =>
        \A j \in 1..Len(Accepted) :
            LET orig == Original(Accepted[j].question_id)
            IN  FilteredBy(Accepted[j], orig,
                           {i \in 1..Len(orig.answer_labels) :
                               orig.answer_labels[i][1] = -1 \/ orig.answer_labels[i][2] = -1})

\* C4 witness: a record of three answers accepted with the first and the third,
\* two different resolved labels in their order, after the second, whose start
\* alone is unresolved, was dropped
C4_Witness ==
    /\ TrainCall
    /\ \E j \in 1..Len(Accepted) :
          LET orig == Original(Accepted[j].question_id)
          IN  /\ Len(orig.answer_labels) = 3
              /\ orig.answer_labels[2][1] = -1 /\ orig.answer_labels[2][2] # -1
              /\ orig.answer_labels[1] # orig.answer_labels[3]
              /\ Accepted[j].answer_labels = <<orig.answer_labels[1], orig.answer_labels[3]>>
              /\ Accepted[j].best_match_doc_ids = <<0, 2>>
              /\ Accepted[j].fake_answers = <<101, 103>>

\* the reason for which the documented rules reject a record, or "accepted"
Verdict(orig) ==
    IF orig.segmented_question = <<>> \/ orig.documents = <<>> THEN "empty_question"
    ELSE IF orig.fake_answers = <<>>
            \/ \A i \in 1..Len(orig.answer_labels) :
                  orig.answer_labels[i][1] = -1 \/ orig.answer_labels[i][2] = -1
         THEN "empty_fake_answer"
    ELSE "accepted"

\* C5: in a training-mode load with a sink every data record ends in exactly
\* one of the accepted partition and the sink, rejected with the reason of the
\* first matching rule; a non-training load accepts every data record as it is.
C5_AcceptedOrRejected ==
    /\ TrainCall =>
          \A i \in DataLines :
              /\ Cardinality(Among(Accepted, i)) + Cardinality(Among(Rejected, i)) = 1
              /\ Among(Accepted, i) # {} <=> Verdict(Original(i)) = "accepted"
              /\ \A j \in Among(Rejected, i) : Rejected[j].error_info = Verdict(Original(i))
    /\ (call.made /\ ~call.train) =>
          /\ Rejected = <<>>
          /\ Cardinality(DataLines) = Len(Accepted)
          /\ \A j \in 1..Len(Accepted) : Accepted[j] = Original(Accepted[j].question_id)

\* C6: the sink is open during every training-mode load call, the rejected
\* records of the call are written to it, it is closed when the call ends, and
\* no write targets a sink that an earlier call closed.
C6_SinkScopedToOneLoad ==
    TrainCall =>
        /\ call.dumper = "open"
        /\ call.result.raised = "none"
        /\ badcase_dumper = "closed"

====
